---- MODULE Spec2Model ----
(***************************************************************************)
(* OrbitalScan membership backend: the payment webhook (Netlify Blobs      *)
(* version) and the membership query, composed through the "members"       *)
(* store.  Each invocation of a handler is a process: it runs from its     *)
(* entry to its first await in one step, and from the completion of the    *)
(* awaited store call to its return in another.                            *)
(***************************************************************************)
EXTENDS Integers, Sequences, FiniteSets, TLC

(***************************************************************************)
(* JavaScript values.  A value is a record tagged with its type, so that   *)
(* undefined, null, strings and numbers can sit in the same field.  A      *)
(* string is the sequence of its characters.                               *)
(***************************************************************************)
Undefined == [t |-> "undefined"]
Null == [t |-> "null"]
Str(s) == [t |-> "string", v |-> s]
Num(n) == [t |-> "number", n |-> n]

\* ToBoolean: undefined, null, "" and 0 are falsy
Truthy(x) ==
  CASE x.t = "undefined" -> FALSE
    [] x.t = "null" -> FALSE
    [] x.t = "string" -> IF "v" \in DOMAIN x THEN x.v # << >> ELSE TRUE
    [] x.t = "number" -> x.n # 0
    [] OTHER -> TRUE

\* a non-empty string literal whose characters the code never looks at
Text(s) == [t |-> "string", text |-> s]

\* a || b
Or(a, b) == IF Truthy(a) THEN a ELSE b

UpperCase == <<"A","B","C","D","E","F","G","H","I","J","K","L","M",
               "N","O","P","Q","R","S","T","U","V","W","X","Y","Z">>
LowerCase == <<"a","b","c","d","e","f","g","h","i","j","k","l","m",
               "n","o","p","q","r","s","t","u","v","w","x","y","z">>

LowerChar(c) ==
  IF \E i \in DOMAIN UpperCase : UpperCase[i] = c
  THEN LowerCase[CHOOSE i \in DOMAIN UpperCase : UpperCase[i] = c]
  ELSE c

UpperChar(c) ==
  IF \E i \in DOMAIN LowerCase : LowerCase[i] = c
  THEN UpperCase[CHOOSE i \in DOMAIN LowerCase : LowerCase[i] = c]
  ELSE c

\* String.prototype.toLowerCase / toUpperCase on a character sequence
toLowerCase(s) == [i \in DOMAIN s |-> LowerChar(s[i])]
toUpperCase(s) == [i \in DOMAIN s |-> UpperChar(s[i])]

WhiteSpace == {" ", "\t"}

RECURSIVE TrimStart(_)
TrimStart(s) ==
  IF s # << >> /\ Head(s) \in WhiteSpace THEN TrimStart(Tail(s)) ELSE s

RECURSIVE TrimEnd(_)
TrimEnd(s) ==
  IF s # << >> /\ s[Len(s)] \in WhiteSpace
  THEN TrimEnd(SubSeq(s, 1, Len(s) - 1))
  ELSE s

\* String.prototype.trim
trim(s) == TrimEnd(TrimStart(s))

(***************************************************************************)
(* Time.  A time value counts ticks since 1970-01-01T00:00Z, as a Date     *)
(* counts milliseconds; TicksPerDay ticks make a day.  The day and         *)
(* calendar functions are those of ECMAScript's Date (ECMA-262, 21.4.1),   *)
(* evaluated in UTC, the zone the functions run in.                        *)
(***************************************************************************)
TicksPerDay == 2

Day(t) == t \div TicksPerDay
TimeWithinDay(t) == t % TicksPerDay

DaysInYear(y) ==
  IF y % 4 # 0 THEN 365
  ELSE IF y % 100 # 0 THEN 366
  ELSE IF y % 400 # 0 THEN 365
  ELSE 366

DayFromYear(y) ==
  365 * (y - 1970) + ((y - 1969) \div 4) - ((y - 1901) \div 100)
    + ((y - 1601) \div 400)

YearFromDay(d) ==
  CHOOSE y \in (1970 + (d \div 366))..(1970 + (d \div 365)) :
    DayFromYear(y) <= d /\ d < DayFromYear(y + 1)

YearFromTime(t) == YearFromDay(Day(t))
InLeapYear(t) == IF DaysInYear(YearFromTime(t)) = 366 THEN 1 ELSE 0
DayWithinYear(t) == Day(t) - DayFromYear(YearFromTime(t))

\* first day-within-year of month m (0..11), and of the month after December
MonthStart(m, leap) ==
  <<0, 31, 59, 90, 120, 151, 181, 212, 243, 273, 304, 334, 365>>[m + 1]
    + (IF m >= 2 THEN leap ELSE 0)

\* the month (0..11) holding day-within-year d
MonthOfDay(d, leap) ==
  CHOOSE m \in 0..11 : MonthStart(m, leap) <= d /\ d < MonthStart(m + 1, leap)

MonthFromTime(t) ==
  LET leap == InLeapYear(t)
      d == DayWithinYear(t)
  IN  MonthOfDay(d, leap)

DateFromTime(t) ==
  LET leap == InLeapYear(t)
      d == DayWithinYear(t)
  IN  d - MonthStart(MonthOfDay(d, leap), leap) + 1

\* MakeDay(year, month, date): month may exceed 11 and date may exceed the
\* month's length; both carry over
MakeDay(year, month, date) ==
  LET ym == year + (month \div 12)
      mn == month % 12
      leap == IF DaysInYear(ym) = 366 THEN 1 ELSE 0
  IN  DayFromYear(ym) + MonthStart(mn, leap) + date - 1

MakeDate(day, time) == day * TicksPerDay + time

\* Date.prototype.setMonth(month) on time value t
setMonth(t, month) ==
  MakeDate(MakeDay(YearFromTime(t), month, DateFromTime(t)), TimeWithinDay(t))

\* Date.prototype.setFullYear(year) on time value t
setFullYear(t, year) ==
  MakeDate(MakeDay(year, MonthFromTime(t), DateFromTime(t)), TimeWithinDay(t))

\* Date.prototype.toISOString: the text YYYY-MM-DDTHH:mm:ss.sssZ, held as its
\* fields (month 1..12)
toISOString(t) ==
  LET y == YearFromTime(t)
      leap == IF DaysInYear(y) = 366 THEN 1 ELSE 0
      d == Day(t) - DayFromYear(y)
      m == MonthOfDay(d, leap)
  IN  [year |-> y, month |-> m + 1, date |-> d - MonthStart(m, leap) + 1,
       time |-> TimeWithinDay(t)]

\* numbers that may be NaN: << >> is NaN, <<n>> is the number n
NaN == << >>
IsFinite(x) == x # NaN

DaysInMonth(y, m) ==
  LET leap == IF DaysInYear(y) = 366 THEN 1 ELSE 0
  IN  MonthStart(m, leap) - MonthStart(m - 1, leap)

\* Date.parse of a date-time text: NaN unless every field is in range
DateParse(s) ==
  IF /\ s.month \in 1..12
     /\ s.date >= 1
     /\ s.date <= DaysInMonth(s.year, s.month)
     /\ s.time \in 0..(TicksPerDay - 1)
  THEN <<MakeDate(MakeDay(s.year, s.month - 1, s.date), s.time)>>
  ELSE NaN

(***************************************************************************)
(* More JavaScript: booleans, objects, property reads, JSON.               *)
(***************************************************************************)
Bool(b) == [t |-> "boolean", v |-> b]
Obj(f) == [t |-> "object", v |-> f]
\* a string that is a date-time text, held as its fields
IsoStr(f) == [t |-> "string", iso |-> f]
\* a string that is the JSON text of value x, and one that is no JSON text
JsonText(x) == [t |-> "string", json |-> x]
BadText == [t |-> "string", bad |-> TRUE]

EmptyObject == << >>

\* obj[name] on an object's property map: a missing property reads undefined
Get(obj, name) == IF name \in DOMAIN obj THEN obj[name] ELSE Undefined

\* x.name on a value: undefined on a primitive (the read of a property of
\* null or undefined throws instead, see PropThrows)
Prop(x, name) == IF x.t = "object" THEN Get(x.v, name) ELSE Undefined
PropThrows(x) == x.t \in {"null", "undefined"}

Digit == <<"0","1","2","3","4","5","6","7","8","9">>

RECURSIVE Decimal(_)
Decimal(n) ==
  IF n < 10 THEN <<Digit[n + 1]>>
  ELSE Decimal(n \div 10) \o <<Digit[(n % 10) + 1]>>

\* String(x) for the strings and the non-negative integers
JSString(x) == IF x.t = "number" THEN Decimal(x.n) ELSE x.v

\* x.trim() exists on strings only
IsString(x) == x.t = "string" /\ "v" \in DOMAIN x

\* JSON.stringify(data) of an object: properties holding undefined are left out
JSONstringify(data) ==
  [k \in {n \in DOMAIN data : data[n] # Undefined} |-> data[k]]

\* JSON.parse(text): throws unless text is a JSON text
JSONparseThrows(text) == "json" \notin DOMAIN text
JSONparse(text) == text.json

\* the literals of the two handlers
payment_succeeded ==
  <<"p","a","y","m","e","n","t","_","s","u","c","c","e","e","d","e","d">>
monthly == <<"m","o","n","t","h","l","y">>
yearly == <<"y","e","a","r","l","y">>
emailPrefix == <<"e","m","a","i","l",":">>
walletPrefix == <<"w","a","l","l","e","t",":">>

(***************************************************************************)
(* Responses.  json(status, data) of both handlers; a plain response       *)
(* carries a text body.                                                    *)
(***************************************************************************)
json(status, data) ==
  [statusCode |-> status, body |-> JSONstringify(data)]

plain(status, text) == [statusCode |-> status, body |-> [text |-> text]]

(***************************************************************************)
(* Webhook Ingest: the synchronous part of the handler, from its entry to  *)
(* the await of store.setJSON.                                             *)
(***************************************************************************)
Signature(event) ==
  Or(Get(event.headers, "x-helio-signature"),
     Get(event.headers, "X-Helio-Signature"))

WebhookPayloadText(event) == Or(event.body, JsonText(Obj(EmptyObject)))

WebhookPlan(payload) ==
  toLowerCase(JSString(Or(Prop(payload, "plan"), Str(<< >>))))

WebhookEmailRaw(payload) == Or(Prop(payload, "email"), Str(<< >>))
WebhookWalletRaw(payload) == Or(Prop(payload, "wallet"), Str(<< >>))

WebhookEmail(payload) == toLowerCase(trim(WebhookEmailRaw(payload).v))
WebhookWallet(payload) == trim(WebhookWalletRaw(payload).v)

\* (x).trim() on a truthy value that is no string is a TypeError
NormalizeThrows(payload) ==
  \/ ~IsString(WebhookEmailRaw(payload))
  \/ ~IsString(WebhookWalletRaw(payload))

\* mutant of Expires: the date is advanced on a copy that is thrown away
ExpiresUnchanged(plan, t) == t

Expires(plan, t) ==
  LET afterMonthly ==
        IF plan = monthly THEN setMonth(t, MonthFromTime(t) + 1) ELSE t
  IN  IF plan = yearly
      THEN setFullYear(afterMonthly, YearFromTime(afterMonthly) + 1)
      ELSE afterMonthly

\* x || null on a string held as characters
StrOrNull(s) == IF s # << >> THEN Str(s) ELSE Null

Member(payload, t) ==
  [email |-> StrOrNull(WebhookEmail(payload)),
   wallet |-> StrOrNull(WebhookWallet(payload)),
   plan |-> Str(WebhookPlan(payload)),
   amount |-> Or(Prop(payload, "amount"), Null),
   currency |-> Or(Prop(payload, "currency"), Null),
   txHash |-> Or(Prop(payload, "txHash"), Null),
   started_at |-> IsoStr(toISOString(t)),
   expires_at |-> IsoStr(toISOString(Expires(WebhookPlan(payload), t))),
   provider |-> Text("helio"),
   status |-> Text("active")]

\* mutant of WebhookKey: the wallet takes precedence
WebhookKeyWalletFirst(email, wallet) ==
  IF wallet # << >> THEN walletPrefix \o toLowerCase(wallet)
  ELSE emailPrefix \o email

\* mutant of WebhookKey: the wallet is not lower-cased
WebhookKeyWalletAsGiven(email, wallet) ==
  IF email # << >> THEN emailPrefix \o email
  ELSE walletPrefix \o wallet

WebhookKey(email, wallet) ==
  IF email # << >> THEN emailPrefix \o email
  ELSE walletPrefix \o toLowerCase(wallet)

InternalServerError == plain(500, "Internal Server Error")

\* what the handler has done when it first yields: it has returned a
\* response, or it awaits store.setJSON(key, member)
Returned(r) == [returned |-> TRUE, response |-> r]
Awaiting(k, m) == [returned |-> FALSE, key |-> k, member |-> m]

\* mutant of WebhookAfterParse: the payload is validated before its event
\* type is looked at
WebhookAfterParseValidatesFirst(payload, t) ==
  IF PropThrows(payload) THEN Returned(InternalServerError)
  ELSE IF NormalizeThrows(payload) THEN Returned(InternalServerError)
  ELSE IF WebhookPlan(payload) \notin {monthly, yearly}
  THEN Returned(json(400, [ok |-> Bool(FALSE), error |-> Text("Invalid plan")]))
  ELSE IF Prop(payload, "event") # Str(payment_succeeded)
  THEN Returned(json(200, [ok |-> Bool(TRUE), ignored |-> Bool(TRUE)]))
  ELSE IF WebhookEmail(payload) = << >> /\ WebhookWallet(payload) = << >>
  THEN Returned(json(400, [ok |-> Bool(FALSE),
                           error |-> Text("Email or wallet required")]))
  ELSE Awaiting(WebhookKey(WebhookEmail(payload), WebhookWallet(payload)),
                Member(payload, t))

\* mutant of WebhookAfterParse: the identity check looks at the email and the
\* wallet as received, not as trimmed
WebhookAfterParseRawIdentity(payload, t) ==
  IF PropThrows(payload) THEN Returned(InternalServerError)
  ELSE IF Prop(payload, "event") # Str(payment_succeeded)
  THEN Returned(json(200, [ok |-> Bool(TRUE), ignored |-> Bool(TRUE)]))
  ELSE IF NormalizeThrows(payload) THEN Returned(InternalServerError)
  ELSE IF WebhookPlan(payload) \notin {monthly, yearly}
  THEN Returned(json(400, [ok |-> Bool(FALSE), error |-> Text("Invalid plan")]))
  ELSE IF WebhookEmailRaw(payload).v = << >> /\ WebhookWalletRaw(payload).v = << >>
  THEN Returned(json(400, [ok |-> Bool(FALSE),
                           error |-> Text("Email or wallet required")]))
  ELSE Awaiting(WebhookKey(WebhookEmail(payload), WebhookWallet(payload)),
                Member(payload, t))

WebhookAfterParse(payload, t) ==
  IF PropThrows(payload) THEN Returned(InternalServerError)
  ELSE IF Prop(payload, "event") # Str(payment_succeeded)
  THEN Returned(json(200, [ok |-> Bool(TRUE), ignored |-> Bool(TRUE)]))
  ELSE IF NormalizeThrows(payload) THEN Returned(InternalServerError)
  ELSE IF WebhookPlan(payload) \notin {monthly, yearly}
  THEN Returned(json(400, [ok |-> Bool(FALSE), error |-> Text("Invalid plan")]))
  ELSE IF WebhookEmail(payload) = << >> /\ WebhookWallet(payload) = << >>
  THEN Returned(json(400, [ok |-> Bool(FALSE),
                           error |-> Text("Email or wallet required")]))
  ELSE Awaiting(WebhookKey(WebhookEmail(payload), WebhookWallet(payload)),
                Member(payload, t))

\* mutant of WebhookHandler: the signature is compared only when present
WebhookHandlerSkipsAbsent(event, secret, t) ==
  IF event.httpMethod # "POST" THEN Returned(plain(405, "Method Not Allowed"))
  ELSE IF ~Truthy(secret) THEN Returned(plain(500, "Server misconfigured"))
  ELSE IF Truthy(Signature(event)) /\ Signature(event) # secret
  THEN Returned(plain(401, "Unauthorized"))
  ELSE IF JSONparseThrows(WebhookPayloadText(event))
  THEN Returned(InternalServerError)
  ELSE WebhookAfterParse(JSONparse(WebhookPayloadText(event)), t)

\* mutant of WebhookHandler: the signature is checked before the secret
WebhookHandlerAuthFirst(event, secret, t) ==
  IF event.httpMethod # "POST" THEN Returned(plain(405, "Method Not Allowed"))
  ELSE IF ~Truthy(Signature(event)) \/ Signature(event) # secret
  THEN Returned(plain(401, "Unauthorized"))
  ELSE IF ~Truthy(secret) THEN Returned(plain(500, "Server misconfigured"))
  ELSE IF JSONparseThrows(WebhookPayloadText(event))
  THEN Returned(InternalServerError)
  ELSE WebhookAfterParse(JSONparse(WebhookPayloadText(event)), t)

WebhookHandler(event, secret, t) ==
  IF event.httpMethod # "POST" THEN Returned(plain(405, "Method Not Allowed"))
  ELSE IF ~Truthy(secret) THEN Returned(plain(500, "Server misconfigured"))
  ELSE IF ~Truthy(Signature(event)) \/ Signature(event) # secret
  THEN Returned(plain(401, "Unauthorized"))
  ELSE IF JSONparseThrows(WebhookPayloadText(event))
  THEN Returned(InternalServerError)
  ELSE WebhookAfterParse(JSONparse(WebhookPayloadText(event)), t)

\* mutant of WebhookSaved: the answer of the handler before it persisted
WebhookSavedAsReceived(key, member) ==
  json(200, [ok |-> Bool(TRUE), received |-> Bool(TRUE)])

\* the response once store.setJSON has resolved
WebhookSaved(key, member) ==
  json(200, [ok |-> Bool(TRUE), saved |-> Bool(TRUE), key |-> Str(key),
             expires_at |-> member.expires_at])

(***************************************************************************)
(* Membership Query: the synchronous part of the handler, from its entry   *)
(* to the await of store.getJSON, and the part that follows the await.     *)
(***************************************************************************)
\* a string that is a query text name=value&..., held as its pairs in order;
\* a value is held as its tokens, a token being a character or an escape
QueryText(pairs) == [t |-> "string", query |-> pairs]

\* application/x-www-form-urlencoded: the serializer's token for a character
FormEncode(c) ==
  CASE c = " " -> "+"
    [] c = "\t" -> "%09"
    [] c = "+" -> "%2B"
    [] c = "@" -> "%40"
    [] OTHER -> c

\* and the parser's character for a token
FormDecode(k) ==
  CASE k = "+" -> " "
    [] k = "%20" -> " "
    [] k = "%09" -> "\t"
    [] k = "%2B" -> "+"
    [] k = "%40" -> "@"
    [] OTHER -> k

ParamNames == <<"email", "wallet">>

\* new URLSearchParams(obj).toString() of an object whose properties are
\* among ParamNames: "" when it has none
URLSearchParamsToString(obj) ==
  LET names == SelectSeq(ParamNames, LAMBDA n : n \in DOMAIN obj.v)
      pairs == [i \in DOMAIN names |->
                 <<names[i],
                   [j \in DOMAIN obj.v[names[i]].v |->
                      FormEncode(obj.v[names[i]].v[j])]>>]
  IN  IF pairs = << >> THEN Str(<< >>) ELSE QueryText(pairs)

\* a && b
And(a, b) == IF Truthy(a) THEN b ELSE a

\* the argument of new URLSearchParams(...) on line 21
QueryString(event) ==
  Or(Or(event.rawQuery,
        And(event.queryStringParameters,
            IF Truthy(event.queryStringParameters)
            THEN URLSearchParamsToString(event.queryStringParameters)
            ELSE Undefined)),
     Str(<< >>))

\* new URLSearchParams(text): the pairs of the text, values decoded
URLSearchParams(text) ==
  IF "query" \in DOMAIN text
  THEN [i \in DOMAIN text.query |->
          <<text.query[i][1],
            [j \in DOMAIN text.query[i][2] |-> FormDecode(text.query[i][2][j])]>>]
  ELSE << >>

\* params.get(name): the first value of that name, or null
ParamsGet(params, name) ==
  IF \E i \in DOMAIN params : params[i][1] = name
  THEN Str(params[CHOOSE i \in DOMAIN params :
                    /\ params[i][1] = name
                    /\ \A j \in 1..(i - 1) : params[j][1] # name][2])
  ELSE Null

\* mutant of QueryEmail: the parameter is not trimmed
QueryEmailUntrimmed(event) ==
  toLowerCase(Or(ParamsGet(URLSearchParams(QueryString(event)), "email"),
                 Str(<< >>)).v)

QueryEmail(event) ==
  toLowerCase(trim(Or(ParamsGet(URLSearchParams(QueryString(event)), "email"),
                      Str(<< >>)).v))

QueryWallet(event) ==
  trim(Or(ParamsGet(URLSearchParams(QueryString(event)), "wallet"),
          Str(<< >>)).v)

QueryKey(email, wallet) ==
  IF email # << >> THEN emailPrefix \o email
  ELSE walletPrefix \o toLowerCase(wallet)

AwaitingGet(k) == [returned |-> FALSE, key |-> k]

QueryHandler(event) ==
  IF event.httpMethod # "GET" THEN Returned(plain(405, "Method Not Allowed"))
  ELSE IF QueryEmail(event) = << >> /\ QueryWallet(event) = << >>
  THEN Returned(json(400, [ok |-> Bool(FALSE), active |-> Bool(FALSE),
                           reason |-> Text("missing_param")]))
  ELSE AwaitingGet(QueryKey(QueryEmail(event), QueryWallet(event)))

\* Date.parse(x) of a value: NaN for what is no date-time text
DateParseValue(x) ==
  IF x.t = "string" /\ "iso" \in DOMAIN x THEN DateParse(x.iso) ELSE NaN

\* mutant of QueryActive: a record expiring now still counts as active
QueryActiveInclusive(record, t) ==
  LET expiry == DateParseValue(Prop(record, "expires_at"))
  IN  IF IsFinite(expiry) THEN expiry[1] >= t ELSE FALSE

QueryActive(record, t) ==
  LET expiry == DateParseValue(Prop(record, "expires_at"))
  IN  IF IsFinite(expiry) THEN expiry[1] > t ELSE FALSE

\* lines 33-46: the response to a record read from the store, at time t
QueryEvaluate(record, t) ==
  IF ~Truthy(record)
  THEN json(200, [ok |-> Bool(TRUE), active |-> Bool(FALSE),
                  reason |-> Text("not_found")])
  ELSE json(200, [ok |-> Bool(TRUE),
                  active |-> Bool(QueryActive(record, t)),
                  record |-> IF QueryActive(record, t) THEN record
                             ELSE Undefined,
                  reason |-> IF QueryActive(record, t) THEN Undefined
                             ELSE Text("expired")])

(***************************************************************************)
(* The "members" store, strongly consistent: a map from key to the JSON    *)
(* text last set under it.                                                 *)
(***************************************************************************)
\* mutant of SetJSON: a key that is stored keeps its value
SetJSONKeepsFirst(members, key, value) ==
  [k \in DOMAIN members \cup {key} |->
     IF k \in DOMAIN members THEN members[k] ELSE JSONstringify(value)]

\* mutant of SetJSON: the store is replaced by the one entry set
SetJSONAlone(members, key, value) ==
  [k \in {key} |-> JSONstringify(value)]

\* mutant of SetJSON: a null property of the value keeps the property stored
SetJSONMerge(members, key, value) ==
  [k \in DOMAIN members \cup {key} |->
     IF k # key THEN members[k]
     ELSE IF key \notin DOMAIN members THEN JSONstringify(value)
     ELSE [f \in DOMAIN JSONstringify(value) |->
             IF value[f] = Null /\ f \in DOMAIN members[key]
             THEN members[key][f] ELSE value[f]]]

\* store.setJSON(key, value)
SetJSON(members, key, value) ==
  [k \in DOMAIN members \cup {key} |->
     IF k = key THEN JSONstringify(value) ELSE members[k]]

\* mutant of GetJSON: a key that is not stored reads as an empty record
GetJSONEmptyObject(members, key) ==
  IF key \in DOMAIN members THEN Obj(members[key]) ELSE Obj(EmptyObject)

\* store.getJSON(key): the parsed value, or null
GetJSON(members, key) ==
  IF key \in DOMAIN members THEN Obj(members[key]) ELSE Null

(***************************************************************************)
(* State.                                                                  *)
(*   env      process.env.HELIO_WEBHOOK_SECRET                             *)
(*   clock    the current time value                                       *)
(*   store    the "members" store                                          *)
(*   webhook  the invocations of the webhook handler, numbered as they     *)
(*            arrive: where each is, its event, the key and member it is   *)
(*            setting, its response, the number of store writes it has     *)
(*            made and the place of its write among all writes             *)
(*   query    the invocations of the query handler: where each is, its     *)
(*            event, the key it reads and the number of store writes made  *)
(*            before it asked, the record read and the number of store     *)
(*            writes made before the read, the time it read from           *)
(*            Date.now(), its response                                     *)
(*   ticked   the number of times the clock has advanced                   *)
(***************************************************************************)
VARIABLES env, clock, store, webhook, query, ticked

vars == <<env, clock, store, webhook, query, ticked>>

MaxTicks == 2

Webhooks == 1..2
Queries == 1..1

NotInvoked ==
  [pc |-> "none", event |-> Undefined, key |-> Undefined, member |-> Undefined,
   response |-> Undefined, writes |-> 0, order |-> 0]

NotQueried ==
  [pc |-> "none", event |-> Undefined, key |-> Undefined, asked |-> 0,
   record |-> Undefined, seen |-> 0, now |-> Undefined, response |-> Undefined]

\* the number of store writes made so far
Written == Cardinality({w \in Webhooks : webhook[w].order > 0})

\* an invocation of the webhook handler runs to its return or to its await
WebhookInvoke(w, event) ==
  /\ webhook[w].pc = "none"
  /\ \A v \in Webhooks : v < w => webhook[v].pc # "none"
  /\ LET out == WebhookHandler(event, env, clock)
     IN  webhook' = [webhook EXCEPT ![w] =
           IF out.returned
           THEN [NotInvoked EXCEPT !.pc = "returned", !.event = event,
                                   !.response = out.response]
           ELSE [NotInvoked EXCEPT !.pc = "setJSON", !.event = event,
                                   !.key = Str(out.key),
                                   !.member = Obj(out.member)]]
  /\ UNCHANGED <<env, clock, store, query, ticked>>

\* store.setJSON resolves: the write is made and the handler returns
StoreSetJSON(w) ==
  /\ webhook[w].pc = "setJSON"
  /\ store' = SetJSON(store, webhook[w].key.v, webhook[w].member.v)
  /\ webhook' = [webhook EXCEPT
       ![w].pc = "returned",
       ![w].writes = @ + 1,
       ![w].order = Written + 1,
       ![w].response = WebhookSaved(webhook[w].key.v, webhook[w].member.v)]
  /\ UNCHANGED <<env, clock, query, ticked>>

\* store.setJSON (or getStore) throws: nothing is written, the catch answers
StoreSetJSONThrows(w) ==
  /\ webhook[w].pc = "setJSON"
  /\ webhook' = [webhook EXCEPT ![w].pc = "returned",
                                ![w].response = InternalServerError]
  /\ UNCHANGED <<env, clock, store, query, ticked>>

QueryInvoke(q, event) ==
  /\ query[q].pc = "none"
  /\ \A v \in Queries : v < q => query[v].pc # "none"
  /\ LET out == QueryHandler(event)
     IN  query' = [query EXCEPT ![q] =
           IF out.returned
           THEN [NotQueried EXCEPT !.pc = "returned", !.event = event,
                                   !.response = out.response]
           ELSE [NotQueried EXCEPT !.pc = "getJSON", !.event = event,
                                   !.key = Str(out.key),
                                   !.asked = Written]]
  /\ UNCHANGED <<env, clock, store, webhook, ticked>>

\* store.getJSON resolves with the record under the key, or null
StoreGetJSON(q) ==
  /\ query[q].pc = "getJSON"
  /\ query' = [query EXCEPT ![q].pc = "evaluate",
                            ![q].seen = Written,
                            ![q].record = GetJSON(store, query[q].key.v)]
  /\ UNCHANGED <<env, clock, store, webhook, ticked>>

StoreGetJSONThrows(q) ==
  /\ query[q].pc = "getJSON"
  /\ query' = [query EXCEPT ![q].pc = "returned",
                            ![q].response = InternalServerError]
  /\ UNCHANGED <<env, clock, store, webhook, ticked>>

\* the handler resumes: Date.now() is read and the response is built
QueryRespond(q) ==
  /\ query[q].pc = "evaluate"
  /\ query' = [query EXCEPT
       ![q].pc = "returned",
       ![q].now = Num(clock),
       ![q].response = QueryEvaluate(query[q].record, clock)]
  /\ UNCHANGED <<env, clock, store, webhook, ticked>>

\* time passes
Tick(d) ==
  /\ ticked < MaxTicks
  /\ ticked' = ticked + 1
  /\ clock' = clock + d
  /\ UNCHANGED <<env, store, webhook, query>>

(***************************************************************************)
(* Inputs.                                                                 *)
(***************************************************************************)
\* an object literal: the properties given a value
Object(r) == Obj([k \in {n \in DOMAIN r : r[n] # Undefined} |-> r[k]])

GoodSecret == Str(<<"k">>)
OtherSecret == Str(<<"x">>)

\* a notification as the provider posts it
Notification(headers, payload) ==
  [httpMethod |-> "POST", headers |-> headers, body |-> JsonText(payload)]

Signed(value) == [n \in {"x-helio-signature"} |-> value]

Payment(plan, email, wallet, txHash) ==
  Object([event |-> Str(payment_succeeded), plan |-> plan, email |-> email,
          wallet |-> wallet, txHash |-> txHash])

\* a query as the client sends it
Lookup(pairs) ==
  [httpMethod |-> "GET",
   rawQuery |-> IF pairs = << >> THEN Str(<< >>) ELSE QueryText(pairs),
   queryStringParameters |-> Undefined]

Pairs(email, wallet) ==
  (IF email = Undefined THEN << >> ELSE << <<"email", email.v>> >>)
    \o (IF wallet = Undefined THEN << >> ELSE << <<"wallet", wallet.v>> >>)

\* the start of the runs: 2024-01-31T00:00Z
StartTime == MakeDate(MakeDay(2024, 0, 31), 0)

\* the 31 days from Jan 31 to Mar 2, 2024
Month == 31 * TicksPerDay

InitWith(secrets, times) ==
  /\ env \in secrets
  /\ clock \in times
  /\ store = << >>
  /\ webhook = [w \in Webhooks |-> NotInvoked]
  /\ query = [q \in Queries |-> NotQueried]
  /\ ticked = 0

(***************************************************************************)
(* Spec: two concurrent webhook invocations and a query; authenticated     *)
(* payments for two identities, the clock passing the first expiry.        *)
(***************************************************************************)
PaymentEvents ==
  {Notification(Signed(GoodSecret), p) :
     p \in {Payment(Str(monthly), Str(<<" ", "A">>), Str(<<"W", " ">>), Str(<<"t">>)),
            Payment(Str(yearly), Str(<<"a">>), Undefined, Undefined),
            Payment(Str(monthly), Undefined, Str(<<"w">>), Undefined)}}

LookupEvents ==
  {Lookup(Pairs(Str(<<"+", "A">>), Undefined)),
   Lookup(Pairs(Undefined, Str(<<"W", "%20">>))),
   Lookup(Pairs(Undefined, Undefined)),
   [Lookup(Pairs(Str(<<"a">>), Undefined)) EXCEPT !.httpMethod = "POST"]}

Init == InitWith({GoodSecret}, {StartTime})

Next ==
  \/ \E w \in Webhooks, event \in PaymentEvents : WebhookInvoke(w, event)
  \/ \E w \in Webhooks : StoreSetJSON(w)
  \/ \E w \in Webhooks : StoreSetJSONThrows(w)
  \/ \E q \in Queries, event \in LookupEvents : QueryInvoke(q, event)
  \/ \E q \in Queries : StoreGetJSON(q)
  \/ \E q \in Queries : StoreGetJSONThrows(q)
  \/ \E q \in Queries : QueryRespond(q)
  \/ \E d \in {1, Month} : Tick(d)

Spec == Init /\ [][Next]_vars

(***************************************************************************)
(* SpecAuth: two webhook invocations under every configuration of the      *)
(* secret, with the signature header in every spelling and value and the   *)
(* body in every shape.                                                    *)
(***************************************************************************)
Headers(lower, canonical, upper) ==
  LET h == [n \in {"x-helio-signature", "X-Helio-Signature",
                   "X-HELIO-SIGNATURE"} |->
              CASE n = "x-helio-signature" -> lower
                [] n = "X-Helio-Signature" -> canonical
                [] OTHER -> upper]
  IN  [n \in {m \in DOMAIN h : h[m] # Undefined} |-> h[n]]

ValidPayment == Payment(Str(monthly), Str(<<"a">>), Str(<<"w">>), Undefined)

Bodies ==
  {JsonText(ValidPayment),
   JsonText(Object([event |-> Str(<<"r","e","f","u","n","d">>),
                    plan |-> Str(monthly), email |-> Str(<<"a">>)])),
   JsonText(Payment(Str(<<"w","e","e","k","l","y">>), Str(<<"a">>),
                    Undefined, Undefined)),
   JsonText(Payment(Str(yearly), Str(<<" ">>), Undefined, Undefined)),
   JsonText(Payment(Str(yearly), Num(7), Undefined, Undefined)),
   JsonText(Payment(Str(<<"Y","e","a","r","l","y">>), Undefined,
                    Str(<<"W">>), Str(<<"t">>))),
   JsonText(Null),
   BadText,
   Undefined}

AuthEvents ==
  {[httpMethod |-> "POST", headers |-> Headers(l, c, u),
    body |-> JsonText(ValidPayment)] :
     l \in {Undefined, Str(<< >>), GoodSecret, OtherSecret},
     c \in {Undefined, GoodSecret, OtherSecret},
     u \in {Undefined, GoodSecret}}
  \cup {[httpMethod |-> "POST", headers |-> Signed(v), body |-> b] :
          v \in {GoodSecret, OtherSecret}, b \in Bodies}
  \cup {[httpMethod |-> "GET", headers |-> Signed(GoodSecret),
         body |-> JsonText(ValidPayment)]}

InitAuth == InitWith({Undefined, Str(<< >>), GoodSecret}, {StartTime})

NextAuth ==
  \/ \E w \in Webhooks, event \in AuthEvents : WebhookInvoke(w, event)
  \/ \E w \in Webhooks : StoreSetJSON(w)
  \/ \E w \in Webhooks : StoreSetJSONThrows(w)
  \/ Tick(1)

SpecAuth == InitAuth /\ [][NextAuth]_vars

(***************************************************************************)
(* SpecIdentity: a webhook invocation and a query, the email and the       *)
(* wallet of each in several spellings.                                    *)
(***************************************************************************)
IdentityPayments ==
  {Notification(Signed(GoodSecret), Payment(Str(monthly), e, w, Undefined)) :
     e \in {Undefined, Str(<<"a">>), Str(<<" ", "A">>), Str(<<"A", "\t">>),
            Str(<<"b">>)},
     w \in {Undefined, Str(<<"w">>), Str(<<"W", " ">>), Str(<<" ", "w">>)}}

IdentityLookups ==
  {Lookup(Pairs(e, w)) :
     e \in {Undefined, Str(<<"a">>), Str(<<"+", "A">>), Str(<<"A", "%09">>),
            Str(<<"b">>)},
     w \in {Undefined, Str(<<"w">>), Str(<<"W", "+">>), Str(<<"%20", "w">>)}}
  \cup {[httpMethod |-> "GET", rawQuery |-> r, queryStringParameters |-> Object(o)] :
          r \in {Undefined, Str(<< >>)},
          o \in {[email |-> Str(<<"A", " ">>), wallet |-> Undefined],
                 [email |-> Undefined, wallet |-> Str(<<" ", "W">>)],
                 [email |-> Undefined, wallet |-> Undefined]}}

InitIdentity == InitWith({GoodSecret}, {StartTime})

NextIdentity ==
  \/ \E w \in {1}, event \in IdentityPayments : WebhookInvoke(w, event)
  \/ \E w \in {1} : StoreSetJSON(w)
  \/ \E q \in Queries, event \in IdentityLookups : QueryInvoke(q, event)
  \/ \E q \in Queries : StoreGetJSON(q)
  \/ \E q \in Queries : QueryRespond(q)
  \/ Tick(Month)

SpecIdentity == InitIdentity /\ [][NextIdentity]_vars

(***************************************************************************)
(* SpecCalendar: the same notification delivered twice, the first          *)
(* delivery on any day from 2023-01-25 to 2023-03-05 or from 2023-12-25    *)
(* to 2024-03-05, at any time of day.                                      *)
(***************************************************************************)
CalendarTimes ==
  {MakeDate(d, t) :
     d \in (MakeDay(2023, 0, 25)..MakeDay(2023, 2, 5))
             \cup (MakeDay(2023, 11, 25)..MakeDay(2024, 2, 5)),
     t \in 0..(TicksPerDay - 1)}

CalendarEvents ==
  {Notification(Signed(GoodSecret), Payment(Str(p), Str(<<"a">>), Undefined, Undefined)) :
     p \in {monthly, yearly}}

InitCalendar == InitWith({GoodSecret}, CalendarTimes)

\* the second delivery carries the notification of the first
Redelivery(w, event) ==
  /\ \A v \in Webhooks : v < w => webhook[v].pc = "returned" /\ webhook[v].event = event
  /\ WebhookInvoke(w, event)

NextCalendar ==
  \/ \E w \in Webhooks, event \in CalendarEvents : Redelivery(w, event)
  \/ \E w \in Webhooks : StoreSetJSON(w)
  \/ \E d \in {1, TicksPerDay} : Tick(d)

SpecCalendar == InitCalendar /\ [][NextCalendar]_vars

(***************************************************************************)
(* SpecPayload: an authenticated payment that is saved, and beside it an   *)
(* authenticated POST whose body is of any shape: every event type, plan,  *)
(* email, wallet, amount and currency, present or not, of the type the     *)
(* provider documents or of another.                                       *)
(***************************************************************************)
refund == <<"r","e","f","u","n","d">>
weekly == <<"w","e","e","k","l","y">>

Plans ==
  {Undefined, Str(<< >>), Str(weekly), Str(monthly),
   Str(<<"Y","e","a","r","l","y">>),
   Str(<<"m","o","n","t","h","l","y"," ">>)}

Payloads ==
  {Object([event |-> e, plan |-> p, email |-> m, wallet |-> w]) :
     e \in {Str(payment_succeeded), Str(refund), Undefined},
     p \in Plans,
     m \in {Undefined, Null, Str(<<" ">>), Str(<<" ", "A">>), Num(7)},
     w \in {Undefined, Str(<<"\t">>), Str(<<"W", " ">>)}}
  \cup
  {Object([event |-> Str(payment_succeeded), plan |-> Str(monthly),
           email |-> Str(<<"a">>), amount |-> a, currency |-> c]) :
     a \in {Undefined, Num(0), Num(5), Str(<<"5">>), Str(<<"a","b","c">>)},
     c \in {Undefined, Str(<<"u","s","d","t">>), Str(<<"U","S","D","T">>)}}

PayloadEvents ==
  {Notification(Signed(GoodSecret), p) : p \in Payloads}
  \cup {[httpMethod |-> "POST", headers |-> Signed(GoodSecret), body |-> b] :
          b \in {JsonText(Null), JsonText(Num(7)), BadText, Str(<< >>),
                 Undefined}}

SavedEvents ==
  {Notification(Signed(GoodSecret), p) :
     p \in {Payment(Str(yearly), Str(<<"a">>), Undefined, Undefined),
            Payment(Str(monthly), Undefined, Str(<<"w">>), Undefined)}}

\* 2024-01-31, 2024-02-29 and 2023-12-31, at 00:00Z
PayloadTimes ==
  {StartTime, MakeDate(MakeDay(2024, 1, 29), 0),
   MakeDate(MakeDay(2023, 11, 31), 0)}

InitPayload == InitWith({GoodSecret}, PayloadTimes)

NextPayload ==
  \/ \E event \in SavedEvents : WebhookInvoke(1, event)
  \/ \E event \in PayloadEvents : WebhookInvoke(2, event)
  \/ \E w \in Webhooks : StoreSetJSON(w)
  \/ \E w \in Webhooks : StoreSetJSONThrows(w)
  \/ Tick(1)

SpecPayload == InitPayload /\ [][NextPayload]_vars

(***************************************************************************)
(* Properties.                                                             *)
(***************************************************************************)
Invoked(w) == webhook[w].pc # "none"
Saved(w) == webhook[w].order > 0
StatusOf(x) == IF x.pc = "returned" THEN x.response.statusCode ELSE 0

\* the values a request carries for the signature header, in any spelling
\* of its name
SignatureValues(event) == {event.headers[n] : n \in DOMAIN event.headers}

\* C1: with the secret configured, a POST none of whose signature header
\* values equals the secret (absent, empty or different) is answered 401 and
\* makes no store write, whatever its body; and every stored record is the
\* member of an invocation that carried the secret as its signature.
UnauthorizedIsRejected ==
  /\ \A w \in Webhooks :
       (/\ Invoked(w)
        /\ webhook[w].event.httpMethod = "POST"
        /\ Truthy(env)
        /\ env \notin SignatureValues(webhook[w].event))
       => (/\ StatusOf(webhook[w]) = 401
           /\ webhook[w].writes = 0)
  /\ \A k \in DOMAIN store :
       \E w \in Webhooks :
         /\ Saved(w)
         /\ webhook[w].key = Str(k)
         /\ store[k] = webhook[w].member.v
         /\ Truthy(env)
         /\ env \in SignatureValues(webhook[w].event)

\* C1 happens: the store holds a record, and a POST of a valid payment with
\* a wrong signature has been answered 401
UnauthorizedIsRejectedWitness ==
  \E w \in Webhooks :
    /\ store # << >>
    /\ webhook[w].pc = "returned"
    /\ webhook[w].event.httpMethod = "POST"
    /\ webhook[w].event.body = JsonText(ValidPayment)
    /\ SignatureValues(webhook[w].event) = {OtherSecret}
    /\ webhook[w].response.statusCode = 401

\* C2: with the secret unset or empty, every POST is answered 500, whatever
\* its signature and body, and the store is never written.
MisconfiguredFailsClosed ==
  ~Truthy(env) =>
    /\ store = << >>
    /\ \A w \in Webhooks :
         (Invoked(w) /\ webhook[w].event.httpMethod = "POST")
         => (StatusOf(webhook[w]) = 500 /\ webhook[w].writes = 0)

\* C2 happens: the secret is empty, and a POST of a valid payment whose
\* signature header is empty too, and one with no signature header, have
\* been answered 500
MisconfiguredFailsClosedWitness ==
  /\ env = Str(<< >>)
  /\ \E w, v \in Webhooks :
       /\ webhook[w].pc = "returned"
       /\ webhook[w].event.body = JsonText(ValidPayment)
       /\ SignatureValues(webhook[w].event) = {Str(<< >>)}
       /\ webhook[w].response.statusCode = 500
       /\ webhook[v].pc = "returned"
       /\ webhook[v].event.httpMethod = "POST"
       /\ SignatureValues(webhook[v].event) = {}
       /\ webhook[v].response.statusCode = 500

\* C10: an invocation makes at most one store write; it has made one exactly
\* when it returns 200 with saved:true, and none before its return.
OneWriteIffSaved ==
  \A w \in Webhooks :
    /\ webhook[w].writes <= 1
    /\ webhook[w].pc # "returned" => webhook[w].writes = 0
    /\ webhook[w].pc = "returned" =>
         (webhook[w].writes = 1
            <=> (/\ webhook[w].response.statusCode = 200
                 /\ "saved" \in DOMAIN webhook[w].response.body
                 /\ webhook[w].response.body.saved = Bool(TRUE)))
    /\ (webhook[w].pc = "returned"
         /\ webhook[w].response.statusCode \in {400, 401, 405, 500})
        => webhook[w].writes = 0
    /\ (webhook[w].pc = "returned"
         /\ "ignored" \in DOMAIN webhook[w].response.body)
        => webhook[w].writes = 0

\* C10 happens: one invocation has saved, with its one write, and another
\* has been answered 400 with none
OneWriteIffSavedWitness ==
  \E w, v \in Webhooks :
    /\ webhook[w].pc = "returned"
    /\ webhook[w].writes = 1
    /\ webhook[w].response.statusCode = 200
    /\ webhook[v].pc = "returned"
    /\ webhook[v].response.statusCode = 400
    /\ webhook[v].writes = 0

\* the writers of key k, and the one whose write was made last
Writers(k) == {w \in Webhooks : Saved(w) /\ webhook[w].key = Str(k)}
LastWriter(k) ==
  CHOOSE w \in Writers(k) :
    \A v \in Writers(k) : webhook[v].order <= webhook[w].order

\* C9: the store holds a key exactly when an invocation has written it, and
\* under it the record, property for property, that the last invocation to
\* write the key built; nothing of an earlier record is left.
LastWriteWins ==
  \A k \in DOMAIN store \cup {webhook[w].key.v : w \in {v \in Webhooks : Saved(v)}} :
    /\ k \in DOMAIN store
    /\ Writers(k) # {}
    /\ DOMAIN store[k] = DOMAIN webhook[LastWriter(k)].member.v
    /\ \A f \in DOMAIN store[k] :
         store[k][f] = webhook[LastWriter(k)].member.v[f]

\* C9 happens: two invocations ran concurrently and wrote the same key, the
\* one that arrived first writing last; the earlier record had a wallet and a
\* txHash, the later has none, and the record stored has none
LastWriteWinsWitness ==
  /\ webhook[1].order = 2
  /\ webhook[2].order = 1
  /\ webhook[1].key = webhook[2].key
  /\ webhook[2].member.v.txHash # Null
  /\ webhook[2].member.v.wallet # Null
  /\ store[webhook[1].key.v].txHash = Null
  /\ store[webhook[1].key.v].wallet = Null

\* the record a query read, when it read one
ReadRecord(q) ==
  query[q].pc \in {"evaluate", "returned"} /\ query[q].record.t = "object"

\* the query has answered from what it read
Answered(q) == query[q].pc = "returned" /\ query[q].now # Undefined

\* C4: a query that read a record answers 200 with ok:true; active is true
\* exactly when the record's expires_at parses and is greater than the time
\* the query read; the response holds the record exactly when active, and
\* the reason "expired" exactly when not.
ExpiryDecidesActive ==
  \A q \in Queries :
    (Answered(q) /\ ReadRecord(q)) =>
      LET body == query[q].response.body
          expiry == DateParseValue(query[q].record.v.expires_at)
          live == IsFinite(expiry) /\ expiry[1] > query[q].now.n
      IN  /\ query[q].response.statusCode = 200
          /\ body.ok = Bool(TRUE)
          /\ body.active = Bool(live)
          /\ "record" \in DOMAIN body <=> live
          /\ live => body.record = query[q].record
          /\ "reason" \in DOMAIN body <=> ~live
          /\ ~live => body.reason = Text("expired")

\* C4 happens: a query read a record and answered at the very time the
\* record expires, with active:false and the reason "expired"
ExpiryDecidesActiveWitness ==
  \E q \in Queries :
    /\ Answered(q)
    /\ ReadRecord(q)
    /\ DateParseValue(query[q].record.v.expires_at) = <<query[q].now.n>>
    /\ query[q].response.body.active = Bool(FALSE)
    /\ query[q].response.body.reason = Text("expired")

\* the email and the wallet a notification carries, "" when it carries none
Paid(w, name) ==
  LET payload == webhook[w].event.body.json.v
  IN  IF name \in DOMAIN payload THEN payload[name].v ELSE << >>

\* the email and the wallet a query supplies, "" when it supplies none
Asked(q, name) ==
  LET value == ParamsGet(URLSearchParams(QueryString(query[q].event)), name)
  IN  IF value = Null THEN << >> ELSE value.v

\* the same email up to letter case and surrounding whitespace; the same
\* wallet up to surrounding whitespace
SameEmail(a, b) ==
  trim(a) # << >> /\ toLowerCase(trim(a)) = toLowerCase(trim(b))
SameWallet(a, b) == trim(a) # << >> /\ trim(a) = trim(b)

\* query q read the store after invocation w had written it, and no other
\* invocation had written w's key in between
ReadsWriteOf(q, w) ==
  /\ Saved(w)
  /\ query[q].pc \in {"evaluate", "returned"}
  /\ query[q].record # Undefined
  /\ query[q].seen >= webhook[w].order
  /\ ~ \E v \in Webhooks :
         /\ Saved(v)
         /\ webhook[v].key = webhook[w].key
         /\ webhook[v].order > webhook[w].order
         /\ webhook[v].order <= query[q].seen

ExpiresAt(w) == DateParse(webhook[w].member.v.expires_at.iso)[1]
StartedAt(w) == DateParse(webhook[w].member.v.started_at.iso)[1]

FoundActive(q, w) ==
  /\ query[q].response.statusCode = 200
  /\ query[q].response.body.active = Bool(TRUE)
  /\ "record" \in DOMAIN query[q].response.body
  /\ query[q].response.body.record = webhook[w].member

\* C3 as claimed: a query that reads the store after a save and answers
\* before the record expires, supplying the same email, or the same wallet
\* and no email, answers active:true with the record, whatever identities
\* the notification carried.
RoundTripAnyIdentity ==
  \A w \in Webhooks, q \in Queries :
    (/\ ReadsWriteOf(q, w)
     /\ Answered(q)
     /\ query[q].now.n < ExpiresAt(w)
     /\ \/ SameEmail(Paid(w, "email"), Asked(q, "email"))
        \/ /\ trim(Asked(q, "email")) = << >>
           /\ SameWallet(Paid(w, "wallet"), Asked(q, "wallet")))
    => FoundActive(q, w)

\* C3 as amended: the same, for a query that supplies the same email, or,
\* the notification carrying no email, the same wallet and no email.
RoundTripSameKey ==
  \A w \in Webhooks, q \in Queries :
    (/\ ReadsWriteOf(q, w)
     /\ Answered(q)
     /\ query[q].now.n < ExpiresAt(w)
     /\ \/ SameEmail(Paid(w, "email"), Asked(q, "email"))
        \/ /\ trim(Paid(w, "email")) = << >>
           /\ trim(Asked(q, "email")) = << >>
           /\ SameWallet(Paid(w, "wallet"), Asked(q, "wallet")))
    => FoundActive(q, w)

\* C3 happens: a notification carrying the email " A" and a wallet was saved,
\* and a query supplying the email "A<tab>" found its record active
RoundTripSameKeyWitness ==
  \E w \in Webhooks, q \in Queries :
    /\ ReadsWriteOf(q, w)
    /\ Paid(w, "email") = <<" ", "A">>
    /\ Paid(w, "wallet") # << >>
    /\ Asked(q, "email") = <<"A", "\t">>
    /\ Answered(q)
    /\ FoundActive(q, w)

\* the key C8 states for an email and a wallet as given
StatedKey(email, wallet) ==
  IF toLowerCase(trim(email)) # << >>
  THEN Str(emailPrefix \o toLowerCase(trim(email)))
  ELSE Str(walletPrefix \o toLowerCase(trim(wallet)))

\* C8: the webhook writes under, and the query reads from, the email key
\* whenever the normalized email is not empty, and the wallet key otherwise;
\* on the same normalized email and wallet the two derive the same key.
EmailKeyFirst ==
  /\ \A w \in Webhooks :
       webhook[w].key # Undefined =>
         /\ webhook[w].key = StatedKey(Paid(w, "email"), Paid(w, "wallet"))
         /\ Saved(w) => webhook[w].key.v \in DOMAIN store
  /\ \A q \in Queries :
       query[q].key # Undefined =>
         /\ query[q].key = StatedKey(Asked(q, "email"), Asked(q, "wallet"))
         /\ ReadRecord(q) => query[q].key.v \in DOMAIN store
  /\ \A w \in Webhooks, q \in Queries :
       (/\ webhook[w].key # Undefined
        /\ query[q].key # Undefined
        /\ toLowerCase(trim(Paid(w, "email")))
             = toLowerCase(trim(Asked(q, "email")))
        /\ trim(Paid(w, "wallet")) = trim(Asked(q, "wallet")))
       => webhook[w].key = query[q].key

\* C8 happens: a notification and a query each carry an email and a wallet,
\* and both derive the email key
EmailKeyFirstWitness ==
  \E w \in Webhooks, q \in Queries :
    /\ Saved(w)
    /\ ReadRecord(q)
    /\ trim(Paid(w, "email")) # << >>
    /\ trim(Paid(w, "wallet")) # << >>
    /\ trim(Asked(q, "email")) # << >>
    /\ trim(Asked(q, "wallet")) # << >>
    /\ webhook[w].key = query[q].key
    /\ SubSeq(query[q].key.v, 1, Len(emailPrefix)) = emailPrefix

HasMember(w) == webhook[w].member # Undefined
PlanOf(w) == webhook[w].member.v.plan.v

Least(a, b) == IF a <= b THEN a ELSE b

\* C6: for the plan monthly, expires_at is started_at with the month advanced
\* by one: the same day and time of day, or the last day of that month when
\* it has no such day.
MonthlyAddsCalendarMonth ==
  \A w \in Webhooks :
    (HasMember(w) /\ PlanOf(w) = monthly) =>
      LET from == webhook[w].member.v.started_at.iso
          y == IF from.month = 12 THEN from.year + 1 ELSE from.year
          m == IF from.month = 12 THEN 1 ELSE from.month + 1
      IN  webhook[w].member.v.expires_at.iso =
            [year |-> y, month |-> m,
             date |-> Least(from.date, DaysInMonth(y, m)),
             time |-> from.time]

\* C7: for the plan yearly, expires_at is started_at with the year advanced
\* by one: the same month, day and time of day, or the last day of that
\* February for a started_at of Feb 29.
YearlyAddsCalendarYear ==
  \A w \in Webhooks :
    (HasMember(w) /\ PlanOf(w) = yearly) =>
      LET from == webhook[w].member.v.started_at.iso
      IN  webhook[w].member.v.expires_at.iso =
            [year |-> from.year + 1, month |-> from.month,
             date |-> Least(from.date, DaysInMonth(from.year + 1, from.month)),
             time |-> from.time]

\* C5: of two deliveries of the same notification, the second made after the
\* first has returned and at a later time, the second writes the later
\* expires_at.
RedeliveryExtends ==
  \A w, v \in Webhooks :
    (/\ w < v
     /\ Saved(w)
     /\ Saved(v)
     /\ webhook[w].event = webhook[v].event
     /\ StartedAt(w) < StartedAt(v))
    => ExpiresAt(w) < ExpiresAt(v)

\* the invocation carries the secret as its signature
Authentic(w) ==
  /\ Invoked(w)
  /\ webhook[w].event.httpMethod = "POST"
  /\ Truthy(env)
  /\ SignatureValues(webhook[w].event) = {env}

\* the body of the invocation is a JSON text (none or "" counts as "{}"),
\* and the value it parses to
Parses(w) == ~JSONparseThrows(WebhookPayloadText(webhook[w].event))
PayloadOf(w) == JSONparse(WebhookPayloadText(webhook[w].event))

\* a notification of a succeeded payment
IsPayment(w) ==
  /\ Authentic(w)
  /\ Parses(w)
  /\ PayloadOf(w).t = "object"
  /\ Prop(PayloadOf(w), "event") = Str(payment_succeeded)

\* the plan of the notification, lower-cased, is monthly or yearly
PlanIsValid(w) ==
  LET plan == Prop(PayloadOf(w), "plan")
  IN  IsString(plan) /\ toLowerCase(plan.v) \in {monthly, yearly}

\* a property of the notification is absent, or empty once trimmed
AbsentOrEmpty(w, name) ==
  LET x == Prop(PayloadOf(w), name)
  IN  x \in {Undefined, Null} \/ (IsString(x) /\ trim(x.v) = << >>)

\* the invocation was answered 400 with this error, having written nothing
Rejected(w, error) ==
  /\ webhook[w].pc = "returned"
  /\ webhook[w].response =
       json(400, [ok |-> Bool(FALSE), error |-> Text(error)])
  /\ webhook[w].writes = 0
  /\ webhook[w].key = Undefined

\* C11: a notification of a succeeded payment whose plan, lower-cased, is
\* neither monthly nor yearly is answered 400 "Invalid plan" and writes
\* nothing, whatever email and wallet it carries.
InvalidPlanIsRejected ==
  \A w \in Webhooks :
    (IsPayment(w) /\ ~PlanIsValid(w)) => Rejected(w, "Invalid plan")

\* C12: a notification of a succeeded payment with a valid plan, whose email
\* and wallet are both absent or empty once trimmed, is answered 400 "Email
\* or wallet required" and writes nothing.
MissingIdentityIsRejected ==
  \A w \in Webhooks :
    (/\ IsPayment(w)
     /\ PlanIsValid(w)
     /\ AbsentOrEmpty(w, "email")
     /\ AbsentOrEmpty(w, "wallet"))
    => Rejected(w, "Email or wallet required")

\* C12 happens: a record is stored, and a yearly payment whose email is a
\* space and whose wallet is a tab has been rejected
MissingIdentityIsRejectedWitness ==
  \E w \in Webhooks :
    /\ store # << >>
    /\ IsPayment(w)
    /\ Prop(PayloadOf(w), "plan") = Str(<<"Y","e","a","r","l","y">>)
    /\ Prop(PayloadOf(w), "email") = Str(<<" ">>)
    /\ Prop(PayloadOf(w), "wallet") = Str(<<"\t">>)
    /\ Rejected(w, "Email or wallet required")

\* C13: an authenticated POST whose body parses to a value with an event
\* type other than "payment_succeeded", or with none, is answered 200 with
\* ok:true and ignored:true and nothing else, and writes nothing, whatever
\* plan, email and wallet it carries.
IgnoredLeavesStore ==
  \A w \in Webhooks :
    (/\ Authentic(w)
     /\ Parses(w)
     /\ ~PropThrows(PayloadOf(w))
     /\ Prop(PayloadOf(w), "event") # Str(payment_succeeded))
    => /\ webhook[w].pc = "returned"
       /\ webhook[w].response =
            json(200, [ok |-> Bool(TRUE), ignored |-> Bool(TRUE)])
       /\ webhook[w].writes = 0
       /\ webhook[w].key = Undefined

\* C13 happens: a record is stored, and a refund notification with a valid
\* plan, email and wallet has been ignored
IgnoredLeavesStoreWitness ==
  \E w \in Webhooks :
    /\ store # << >>
    /\ Authentic(w)
    /\ PayloadOf(w) = Object([event |-> Str(refund), plan |-> Str(monthly),
                              email |-> Str(<<" ", "A">>),
                              wallet |-> Str(<<"W", " ">>)])
    /\ webhook[w].pc = "returned"
    /\ "ignored" \in DOMAIN webhook[w].response.body
    /\ webhook[w].writes = 0

\* C14: with the secret configured, a POST that carries the secret as the
\* value of its signature header, in whatever letter case the header's name
\* is spelled, is not answered 401.
AnySpellingAuthenticates ==
  \A w \in Webhooks : Authentic(w) => StatusOf(webhook[w]) # 401

\* the key query q reads had not been written when q read it
NeverWritten(q) ==
  ~ \E w \in Webhooks :
      /\ Saved(w)
      /\ webhook[w].key = query[q].key
      /\ webhook[w].order <= query[q].seen

\* the query has read the store
HasRead(q) ==
  query[q].pc \in {"evaluate", "returned"} /\ query[q].record # Undefined

\* C15: a query that reads a key no invocation has written reads no record,
\* and answers 200 with ok:true, active:false and the reason "not_found",
\* and nothing else, whatever has been written under other keys.
UnknownIsNotFound ==
  \A q \in Queries :
    (HasRead(q) /\ NeverWritten(q)) =>
      /\ query[q].record = Null
      /\ Answered(q) =>
           query[q].response =
             [statusCode |-> 200,
              body |-> [ok |-> Bool(TRUE), active |-> Bool(FALSE),
                        reason |-> Text("not_found")]]

\* C15 happens: a record is stored under a wallet key, and a query by an
\* email has been answered not_found
UnknownIsNotFoundWitness ==
  \E q \in Queries, w \in Webhooks :
    /\ Saved(w)
    /\ webhook[w].order <= query[q].seen
    /\ SubSeq(webhook[w].key.v, 1, Len(walletPrefix)) = walletPrefix
    /\ Answered(q)
    /\ NeverWritten(q)
    /\ SubSeq(query[q].key.v, 1, Len(emailPrefix)) = emailPrefix
    /\ query[q].response.body.reason = Text("not_found")

\* C16: a step of a query leaves the store as it is, and a step of any kind
\* keeps every key the store holds.
KeysAreKept ==
  [][/\ query' # query => store' = store
     /\ DOMAIN store \subseteq DOMAIN store']_vars

\* C16 happens: two keys are stored, the record of one has expired, a query
\* has read it and answered "expired", and the key is still stored
KeysAreKeptWitness ==
  \E q \in Queries :
    /\ Cardinality(DOMAIN store) = 2
    /\ Answered(q)
    /\ ReadRecord(q)
    /\ query[q].response.body.active = Bool(FALSE)
    /\ query[q].key.v \in DOMAIN store
    /\ DateParseValue(store[query[q].key.v].expires_at)[1] < clock

\* a property of the notification as a string: "" when it is absent or null
Given(w, name) ==
  LET x == Prop(PayloadOf(w), name)
  IN  IF IsString(x) THEN x.v ELSE << >>

IsNumeric(s) ==
  s # << >> /\ \A i \in DOMAIN s : \E d \in DOMAIN Digit : Digit[d] = s[i]

RECURSIVE NumberOf(_)
NumberOf(s) ==
  IF s = << >> THEN 0
  ELSE 10 * NumberOf(SubSeq(s, 1, Len(s) - 1))
         + (CHOOSE d \in DOMAIN Digit : Digit[d] = s[Len(s)]) - 1

\* a value coerced to a number, 0 when it is absent or not numeric
Coerced(x) ==
  IF x.t = "number" THEN x
  ELSE IF IsString(x) /\ IsNumeric(x.v) THEN Num(NumberOf(x.v))
  ELSE Num(0)

\* C17: the record an invocation has persisted holds the plan lower-cased,
\* the email trimmed and lower-cased or null, the wallet trimmed or null, the
\* currency upper-cased, and the amount as a number, 0 when the payload's
\* amount is absent or not numeric.
FieldsAreNormalized ==
  \A w \in Webhooks :
    Saved(w) =>
      LET member == webhook[w].member.v
          currency == Prop(PayloadOf(w), "currency")
      IN  /\ member.plan = Str(toLowerCase(Given(w, "plan")))
          /\ member.email = StrOrNull(toLowerCase(trim(Given(w, "email"))))
          /\ member.wallet = StrOrNull(trim(Given(w, "wallet")))
          /\ IsString(currency) =>
               member.currency = Str(toUpperCase(currency.v))
          /\ member.amount = Coerced(Prop(PayloadOf(w), "amount"))
          /\ store[webhook[w].key.v].plan = member.plan

\* the invocations that had written the key of query q when q read it, and
\* the one among them that wrote last
WritersSeen(q) ==
  {w \in Webhooks : /\ Saved(w)
                     /\ webhook[w].key = query[q].key
                     /\ webhook[w].order <= query[q].seen}
LastSeen(q) ==
  CHOOSE w \in WritersSeen(q) :
    \A v \in WritersSeen(q) : webhook[v].order <= webhook[w].order

\* C18: a query that asks the store for key k after an invocation has written
\* k and returned reads the record of the last write to k made before the
\* read, under every interleaving; it never answers not_found, and it
\* answers active:true with that record when it answers before the record's
\* expires_at.
ReadAfterWrite ==
  \A q \in Queries, w \in Webhooks :
    (/\ HasRead(q)
     /\ Saved(w)
     /\ webhook[w].key = query[q].key
     /\ webhook[w].order <= query[q].asked)
    => /\ query[q].record = webhook[LastSeen(q)].member
       /\ Answered(q) =>
            /\ query[q].response.statusCode = 200
            /\ "reason" \in DOMAIN query[q].response.body =>
                 query[q].response.body.reason = Text("expired")
            /\ query[q].now.n < ExpiresAt(LastSeen(q)) =>
                 FoundActive(q, LastSeen(q))

\* C18 happens: two invocations ran concurrently and wrote the same key, the
\* first to arrive writing last; a query asked for the key after both had
\* returned and found the record of the last write active
ReadAfterWriteWitness ==
  \E q \in Queries :
    /\ webhook[1].order = 2
    /\ webhook[2].order = 1
    /\ webhook[1].key = webhook[2].key
    /\ webhook[1].member # webhook[2].member
    /\ query[q].key = webhook[1].key
    /\ query[q].asked = 2
    /\ Answered(q)
    /\ FoundActive(q, 1)

\* a field of a record holds a string that is not empty
NonEmpty(x) == x # Null /\ IsString(x) /\ x.v # << >>

\* C19: every record in the store has the plan monthly or yearly, the status
\* "active", an email or a wallet that is neither null nor empty, and an
\* expires_at strictly after its started_at.
RecordsAreWellFormed ==
  \A k \in DOMAIN store :
    LET record == store[k]
    IN  /\ record.plan \in {Str(monthly), Str(yearly)}
        /\ record.status = Text("active")
        /\ NonEmpty(record.email) \/ NonEmpty(record.wallet)
        /\ IsFinite(DateParseValue(record.started_at))
        /\ IsFinite(DateParseValue(record.expires_at))
        /\ DateParseValue(record.expires_at)[1]
             > DateParseValue(record.started_at)[1]

\* C19 happens: the store holds two records, one of them of a notification
\* with the plan "Yearly" and the wallet "W " made on Feb 29, its plan
\* "yearly", its email null and its wallet "W"
RecordsAreWellFormedWitness ==
  \E k \in DOMAIN store :
    /\ Cardinality(DOMAIN store) = 2
    /\ store[k].plan = Str(yearly)
    /\ store[k].email = Null
    /\ store[k].wallet = Str(<<"W">>)
    /\ store[k].started_at.iso.month = 2
    /\ store[k].started_at.iso.date = 29
    /\ \E w \in Webhooks :
         /\ Saved(w)
         /\ webhook[w].key = Str(k)
         /\ Prop(PayloadOf(w), "plan") = Str(<<"Y","e","a","r","l","y">>)

\* the record a query returned
Returns(q) ==
  /\ Answered(q)
  /\ "record" \in DOMAIN query[q].response.body

\* C20: every key of the store is "email:" followed by the email of its
\* record when that is not null, and "wallet:" followed by the lower-cased
\* wallet of its record otherwise; the record a query returns has for email
\* the normalized email the query supplied, or, the query supplying none, a
\* null email and the wallet the query supplied, up to letter case.
KeyMatchesRecord ==
  /\ \A k \in DOMAIN store :
       IF store[k].email # Null
       THEN k = emailPrefix \o store[k].email.v
       ELSE k = walletPrefix \o toLowerCase(store[k].wallet.v)
  /\ \A q \in Queries :
       Returns(q) =>
         LET record == query[q].response.body.record.v
             email == toLowerCase(trim(Asked(q, "email")))
             wallet == trim(Asked(q, "wallet"))
         IN  IF email # << >>
             THEN record.email = Str(email)
             ELSE /\ record.email = Null
                  /\ record.wallet # Null
                  /\ toLowerCase(record.wallet.v) = toLowerCase(wallet)

\* C20 happens: a record with a null email and the wallet "W" is stored under
\* "wallet:w", and a query by the wallet "w" has returned it
KeyMatchesRecordWitness ==
  \E q \in Queries :
    /\ Returns(q)
    /\ trim(Asked(q, "wallet")) = <<"w">>
    /\ query[q].response.body.record.v.wallet = Str(<<"W">>)
    /\ query[q].response.body.record.v.email = Null
    /\ walletPrefix \o <<"w">> \in DOMAIN store

====
